---- MODULE Spec2Model ----
(***************************************************************************)
(* A model of src/src/lib.rs: retrieval of the text selected in the        *)
(* foreground application through the accessibility API, with a fallback   *)
(* that synthesizes Cmd+C, waits for the pasteboard's change count to      *)
(* move, reads the string and puts the saved pasteboard items back; and    *)
(* the retrieval of the file paths selected in Finder through osascript.   *)
(*                                                                         *)
(* Strings that the code inspects are sequences of one-character strings   *)
(* (the empty string is << >>); application names, error messages and      *)
(* pasteboard items are opaque values.                                     *)
(***************************************************************************)
EXTENDS Naturals, Sequences, FiniteSets

\* ------------------------------------------------------------------ bounds

\* A caller calls again only while the change count is at most
\* MaxRepeatChangeCount (SpecRepeat).
MaxRepeatChangeCount == 2
\* The pasteboard holds at most MaxItems items when a call starts.
MaxItems == 3
\* The change count of the pasteboard when a call starts is 0..MaxInitChangeCount.
MaxInitChangeCount == 1
\* A caller of get_selected_text_from_pasteboard passes a timeout of
\* 0, 5, ..., 5 * MaxTimeoutSteps milliseconds (or the 90 of _selected_text).
MaxTimeoutSteps == 3
\* Finder's selection holds at most MaxSelected items.
MaxSelected == 2

\* ------------------------------------------------------- program constants

\* std::thread::sleep(Duration::from_millis(10)) of the polling loop
PollInterval == 10
\* the pasteboard_wait_timeout _selected_text passes
DefaultTimeout == 90

\* ---------------------------------------------------------------- values

None == [some |-> FALSE]
Some(v) == [some |-> TRUE, val |-> v]

NoResult == [kind |-> "none"]
Ok(v) == [kind |-> "ok", val |-> v]
Err(m) == [kind |-> "err", msg |-> m]

\* struct SelectedText
SelectedText(fp, app, txt) == [is_file_paths |-> fp, app_name |-> app, text |-> txt]

\* enum GetSelectedTextResult, the Text variant (the PasteboardState variant is
\* the call going on to the pasteboard path)
Text(st) == [variant |-> "Text", val |-> st]

EmptyString == << >>

\* The applications a call is made for.
AppNames == {"Dummy App", "Empty Window"}

\* Pasteboard items present before a call, and the items the foreground
\* application writes when it handles Cmd+C: "s" carries the string "s",
\* "img" carries no string type.
InitItems == {"a", "b"}
CopiedItems == {"s", "img"}

\* The string an item carries for NSPasteboardTypeString, if any.
StringOf(item) == IF item = "img" THEN None ELSE Some(<<item>>)

\* Sequences over S of length 0..n.
SeqsUpTo(S, n) == UNION {[1..k -> S] : k \in 0..n}

TimeoutValues == {(PollInterval \div 2) * k : k \in 0..MaxTimeoutSteps}

\* CMD_KEY, KEY_C
CMD_KEY == "cmd"
KEY_C == "c"

\* sim_ctrl_c posts, in this order: cmd down, c down, c up, cmd up.
KeySequence == << <<CMD_KEY, TRUE>>, <<KEY_C, TRUE>>, <<KEY_C, FALSE>>, <<CMD_KEY, FALSE>> >>

\* What one call of simulate can do: post the event, or fail to create the
\* CGEventSource, or fail to create the keyboard event.
SimulateOutcomes == {"posted", "no_source", "no_event"}

\* What one run of osascript can do: fail to spawn, exit non-zero, exit zero.
ScriptOutcomes == {"spawn_failed", "nonzero", "ok"}

\* What get_selected_text_by_ax can return.
AxOutcomes == {Err("No selected element"), Err("No selected text"),
               Ok(EmptyString), Ok(<<"x">>)}

\* ------------------------------------------------------------------ state

VARIABLES
    pc,                 \* where the call is: "idle", "ax", "save", "save_items", "sim_ctrl_c",
                        \* "quiet_cmd_c", "poll", "read", "restore", "done"
    entry,              \* the function called: "_selected_text", "transaction",
                        \* "get_selected_files"
    app_name,           \* the app_name (or window_name) argument
    use_apple_script,   \* the use_apple_script argument
    ax,                 \* what get_selected_text_by_ax returned
    clipboard,          \* NSPasteboard: its items, in order
    changeCount,        \* NSPasteboard: its change count
    pre,                \* the pasteboard's items when the call started
    pre_change_count,   \* the pasteboard's change count when the call started
    opened,             \* ctrl_c_and_save_pasteboard returned Ok(PasteboardSavedState)
    saved_change_count, \* PasteboardSavedState.saved_change_count
    saved_contents,     \* PasteboardSavedState.saved_contents (an Option)
    key_index,          \* how many simulate calls of sim_ctrl_c have returned Ok
    events,             \* the key events posted, in order: <<key, key_down>>
    scripts,            \* how many osascript processes the call has run
    quiet_status,       \* how the osascript run of quiet_cmd_c ended
    copyPending,        \* the foreground application has received Cmd+C and
                        \* has not handled it yet
    pasteboard_wait_timeout,
    elapsed,            \* start_time.elapsed(), in milliseconds
    new_change_count,
    copied_text,        \* Option<String> read by stringForType
    pb_ops,             \* the mutating pasteboard calls made by the call, in order
    selection,          \* Finder's selection: a sequence of paths
    file_script,        \* the script body handed to osascript by the file-path extractor
    file_output,        \* what that osascript run produced (std::process::Output)
    result              \* what the call returned

vars == <<pc, entry, app_name, use_apple_script, ax, clipboard, changeCount, pre,
          pre_change_count,
          opened, saved_change_count, saved_contents, key_index, events, scripts,
          quiet_status, copyPending, pasteboard_wait_timeout, elapsed, new_change_count,
          copied_text, pb_ops, selection, file_script, file_output, result>>

pasteboardVars == <<clipboard, changeCount>>
callVars == <<entry, app_name, use_apple_script, pre, pre_change_count, file_script,
              file_output>>
savedVars == <<saved_change_count, saved_contents>>
waitVars == <<pasteboard_wait_timeout, elapsed, new_change_count>>

Init ==
    /\ pc = "idle"
    /\ entry = "none"
    /\ app_name = "none"
    /\ use_apple_script = FALSE
    /\ ax = NoResult
    /\ clipboard \in SeqsUpTo(InitItems, MaxItems)
    /\ changeCount \in 0..MaxInitChangeCount
    /\ pre = << >>
    /\ pre_change_count = 0
    /\ opened = FALSE
    /\ saved_change_count = 0
    /\ saved_contents = None
    /\ key_index = 0
    /\ events = << >>
    /\ scripts = 0
    /\ quiet_status = "none"
    /\ copyPending = FALSE
    /\ pasteboard_wait_timeout = 0
    /\ elapsed = 0
    /\ new_change_count = 0
    /\ copied_text = None
    /\ pb_ops = << >>
    /\ selection = << >>
    /\ file_script = "none"
    /\ file_output = [status |-> "none"]
    /\ result = NoResult

\* ------------------------------------- pure parts of the clipboard path

\* pasteboard.stringForType(NSPasteboardTypeString): the string of the first
\* item that carries one.
RECURSIVE StringForType(_)
StringForType(items) ==
    IF items = << >> THEN None
    ELSE IF StringOf(Head(items)).some THEN StringOf(Head(items))
    ELSE StringForType(Tail(items))

\* while new_change_count == saved_change_count
LoopContinues(new, saved) == new = saved

\* PollExpired with the deadline one poll interval late.
PollExpired_Late(el, timeout) == el > timeout + PollInterval

\* if start_time.elapsed() > timeout { break; }
PollExpired(el, timeout) == el > timeout

\* TimeoutResult with the timeout reported as an error.
TimeoutResult_Err(app) == Err("pasteboard took too long to update")

\* the Ok(SelectedText { .. text: vec![String::new()] }) of the timeout path
TimeoutResult(app) == Ok(SelectedText(FALSE, app, <<EmptyString>>))

\* if max > 1
RewritesItems(max) == max > 1

\* RestoredObjects with every saved item written back.
RestoredObjects_All(prev_contents) == prev_contents

\* for i in 0..max - 1 { objs.push(prev_contents.objectAtIndex(i)) }
RestoredObjects(prev_contents) == SubSeq(prev_contents, 1, Len(prev_contents) - 1)

\* ReturnedText with the string taken from the pasteboard once it is cleared.
ReturnedText_AfterClear(copied) == EmptyString

\* copied_text.map(|t| t.to_string()).unwrap_or_default()
ReturnedText(copied) == IF copied.some THEN copied.val ELSE EmptyString

\* CopiedResult with no element, instead of an empty one, for an absent string.
CopiedResult_NoElement(app, copied) ==
    Ok(SelectedText(FALSE, app, IF copied.some THEN <<copied.val>> ELSE << >>))

\* Ok(SelectedText { is_file_paths: false, app_name, text: vec![..] })
CopiedResult(app, copied) == Ok(SelectedText(FALSE, app, <<ReturnedText(copied)>>))

\* WriteFailedResult with the failed write ignored.
WriteFailedResult_Ignored(app, copied) == CopiedResult(app, copied)

\* if !res { bail!("Failed to write objects to pasteboard"); }
WriteFailedResult(app, copied) == Err("Failed to write objects to pasteboard")

\* AxReturnsText with the emptiness of the string tested the wrong way round.
AxReturnsText_OnlyEmpty(r) == r.kind = "ok" /\ r.val = EmptyString

\* match get_selected_text_by_ax() { Ok(txt) => Ok(Text(..)), Err(e) => copy }
AxReturnsText(r) == r.kind = "ok"

\* selected_text.text = vec![txt]
AxResult(app, txt) == Text(SelectedText(FALSE, app, <<txt>>))

\* ------------------------------------------------ the file-path extractor

\* The characters a file name is made of here: a letter, a double quote and a
\* line feed (all legal in a file name). A selected item is a file of the root
\* folder with a name of one character.
NameChars == {"a", "\"", "\n"}
Paths == {<<"/", c>> : c \in NameChars}
Selections == SeqsUpTo(Paths, MaxSelected)

IsWhitespace(c) == c \in {" ", "\n", "\t", "\r"}

\* on replace_chars(this_text, search_string, replacement_string), for a
\* search string of one character
RECURSIVE replace_chars(_, _, _)
replace_chars(this_text, search_char, replacement_string) ==
    IF this_text = << >> THEN << >>
    ELSE (IF Head(this_text) = search_char THEN replacement_string ELSE <<Head(this_text)>>)
         \o replace_chars(Tail(this_text), search_char, replacement_string)

\* set end of itemPaths to "\"" & escapedPath & "\""
QuotedPath(filePath) == <<"\"">> \o replace_chars(filePath, "\"", <<"\\", "\"">>) \o <<"\"">>

\* itemPaths as text, with the text item delimiters set to linefeed
RECURSIVE JoinLines(_)
JoinLines(itemPaths) ==
    IF itemPaths = << >> THEN << >>
    ELSE IF Len(itemPaths) = 1 THEN Head(itemPaths)
    ELSE Head(itemPaths) \o <<"\n">> \o JoinLines(Tail(itemPaths))

\* What either script returns for Finder's selection (the two differ only in
\* the desktopPath the second computes and does not use).
PathText(selectedItems) ==
    IF selectedItems = << >> THEN EmptyString
    ELSE JoinLines([i \in 1..Len(selectedItems) |-> QuotedPath(selectedItems[i])])

\* osascript prints the script's result and a line feed.
ScriptStdout(selectedItems) == PathText(selectedItems) \o <<"\n">>

\* str::trim
RECURSIVE TrimStart(_)
TrimStart(str) ==
    IF str # << >> /\ IsWhitespace(Head(str)) THEN TrimStart(Tail(str)) ELSE str

RECURSIVE TrimEnd(_)
TrimEnd(str) ==
    IF str # << >> /\ IsWhitespace(str[Len(str)])
    THEN TrimEnd(SubSeq(str, 1, Len(str) - 1)) ELSE str

Trim(str) == TrimEnd(TrimStart(str))

\* text.split("\n").map(|t| t.to_owned()).collect::<Vec<String>>()
RECURSIVE SplitLines(_, _)
SplitLines(str, piece) ==
    IF str = << >> THEN <<piece>>
    ELSE IF Head(str) = "\n" THEN <<piece>> \o SplitLines(Tail(str), << >>)
    ELSE SplitLines(Tail(str), Append(piece, Head(str)))

Split(str) == SplitLines(str, << >>)

\* The standard error of a failing osascript run, as bytes: "a", and the two
\* bytes of a UTF-8 e-acute.
Stderrs == {<<97>>, <<195, 169>>}

\* What one run of the file-path script can do: fail to spawn, exit non-zero
\* with a standard error, exit zero with a standard output that is or is not
\* UTF-8.
FileScriptOutcomes ==
    [status : {"spawn_failed", "ok", "ok_not_utf8"}, stderr : {<< >>}]
        \cup [status : {"nonzero"}, stderr : Stderrs]

\* if for_empty_window { EMPTY_WINDOW_PATH_COPY_APPLE_SCRIPT } else { FILE_PATH_COPY_APPLE_SCRIPT }
ScriptBody(for_empty_window) ==
    IF for_empty_window THEN "EMPTY_WINDOW_PATH_COPY_APPLE_SCRIPT"
    ELSE "FILE_PATH_COPY_APPLE_SCRIPT"

\* output.stderr.into_iter().map(|c| c as char).collect::<String>(): every byte
\* becomes the character with that code point.
StderrMessage(stderr) == [i \in 1..Len(stderr) |-> [code_point |-> stderr[i]]]

\* get_selected_file_paths_by_clipboard_using_applescript(for_empty_window)
get_selected_file_paths(for_empty_window, selectedItems, out) ==
    CASE out.status = "ok" -> Ok(Trim(ScriptStdout(selectedItems)))
      [] out.status = "ok_not_utf8" -> Err([error |-> "FromUtf8Error", bytes |-> "stdout"])
      [] out.status = "nonzero" -> Err(StderrMessage(out.stderr))
      [] OTHER -> Err([error |-> "io::Error"])

\* let no_active_app = window_name == "Empty Window";
NoActiveApp(window_name) == window_name = "Empty Window"

\* get_selected_files with a failed extraction turned into an empty selection.
get_selected_files_Swallows(window_name, selectedItems, out) ==
    LET r == get_selected_file_paths(NoActiveApp(window_name), selectedItems, out) IN
    Ok(SelectedText(TRUE, window_name, IF r.kind = "ok" THEN Split(r.val) ELSE <<EmptyString>>))

\* get_selected_files(window_name)
get_selected_files(window_name, selectedItems, out) ==
    LET r == get_selected_file_paths(NoActiveApp(window_name), selectedItems, out) IN
    IF r.kind = "ok"
    THEN Ok(SelectedText(TRUE, window_name, Split(r.val)))
    ELSE [kind |-> "err",
          msg |-> "get_selected_file_paths_by_clipboard_using_applescript failed",
          cause |-> r.msg]

\* ---------------------------------------------------------------- calls

\* A caller invokes _selected_text(app_name, pasteboard, use_apple_script).
Call_selected_text(app, as) ==
    /\ pc = "idle"
    /\ pc' = "ax"
    /\ entry' = "_selected_text"
    /\ app_name' = app
    /\ use_apple_script' = as
    /\ pre' = clipboard
    /\ pre_change_count' = changeCount
    /\ pasteboard_wait_timeout' = DefaultTimeout
    /\ UNCHANGED <<file_script, file_output, quiet_status>>
    /\ UNCHANGED <<ax, pasteboardVars, opened, savedVars, key_index, events, scripts,
                   copyPending, elapsed, new_change_count, copied_text, pb_ops,
                   selection, result>>

\* A caller invokes ctrl_c_and_save_pasteboard(pasteboard, use_applescript) and,
\* when it returns Ok, get_selected_text_from_pasteboard(app_name, pasteboard,
\* saved_change_count, saved_contents, pasteboard_wait_timeout).
CallTransaction(app, as, timeout) ==
    /\ pc = "idle"
    /\ pc' = "save"
    /\ entry' = "transaction"
    /\ app_name' = app
    /\ use_apple_script' = as
    /\ pre' = clipboard
    /\ pre_change_count' = changeCount
    /\ pasteboard_wait_timeout' = timeout
    /\ UNCHANGED <<file_script, file_output, quiet_status>>
    /\ UNCHANGED <<ax, pasteboardVars, opened, savedVars, key_index, events, scripts,
                   copyPending, elapsed, new_change_count, copied_text, pb_ops,
                   selection, result>>

\* get_selected_text_using_ax_then_copy, up to the call of
\* ctrl_c_and_save_pasteboard; and the Text arm of _selected_text.
GetSelectedTextByAx ==
    /\ pc = "ax"
    /\ \E r \in AxOutcomes :
        /\ ax' = r
        /\ IF AxReturnsText(r)
           THEN /\ result' = Ok(AxResult(app_name, r.val).val)
                /\ pc' = "done"
           ELSE /\ result' = result
                /\ pc' = "save"
    /\ UNCHANGED <<quiet_status, callVars, pasteboardVars, opened, savedVars, key_index, events,
                   scripts, copyPending, waitVars, copied_text, pb_ops, selection>>

\* ctrl_c_and_save_pasteboard: let saved_change_count = pasteboard.changeCount()
SavePasteboard ==
    /\ pc = "save"
    /\ saved_change_count' = changeCount
    /\ pc' = "save_items"
    /\ UNCHANGED <<quiet_status, callVars, ax, pasteboardVars, opened, saved_contents, key_index,
                   events, scripts, copyPending, waitVars, copied_text, pb_ops,
                   selection, result>>

\* ctrl_c_and_save_pasteboard: let saved_contents = pasteboard.pasteboardItems(),
\* which is nil when the items cannot be retrieved; then the choice of the copy.
SaveContents ==
    /\ pc = "save_items"
    /\ saved_contents' \in {Some(clipboard), None}
    /\ pc' = IF use_apple_script THEN "quiet_cmd_c" ELSE "sim_ctrl_c"
    /\ UNCHANGED <<quiet_status, callVars, ax, pasteboardVars, opened, saved_change_count, key_index,
                   events, scripts, copyPending, waitVars, copied_text, pb_ops,
                   selection, result>>

\* The command key is down in the posted events.
CmdHeld(evs) ==
    \E i \in 1..Len(evs) :
        /\ evs[i] = <<CMD_KEY, TRUE>>
        /\ \A j \in (i + 1)..Len(evs) : evs[j] # <<CMD_KEY, FALSE>>

\* get_selected_text_from_pasteboard starts: start_time, new_change_count.
StartWait ==
    /\ opened' = TRUE
    /\ elapsed' = 0
    /\ new_change_count' = saved_change_count
    /\ pc' = "poll"

\* SimulateFails with a failed simulate taken for a success (its ? dropped).
SimulateFails_Ignored(out) == FALSE

\* simulate(key, key_down)?: sim_ctrl_c returns the error of a simulate that
\* posted nothing.
SimulateFails(out) == out # "posted"

\* One simulate(key, key_down)? of sim_ctrl_c; after the fourth, sim_ctrl_c and
\* ctrl_c_and_save_pasteboard return Ok.
Simulate ==
    /\ pc = "sim_ctrl_c"
    /\ \E out \in SimulateOutcomes :
        LET ev == KeySequence[key_index + 1] IN
        IF ~SimulateFails(out)
        THEN /\ events' = IF out = "posted" THEN Append(events, ev) ELSE events
             /\ copyPending' = (copyPending \/ (out = "posted" /\ ev = <<KEY_C, TRUE>>
                                                  /\ CmdHeld(events)))
             /\ key_index' = key_index + 1
             /\ result' = result
             /\ IF key_index + 1 = Len(KeySequence)
                THEN StartWait
                ELSE /\ pc' = "sim_ctrl_c"
                     /\ UNCHANGED <<opened, elapsed, new_change_count>>
        ELSE /\ result' = Err(IF out = "no_source"
                              THEN "Failed to create CGEventSource"
                              ELSE "Failed to simulate key press event for spotlight selected text copy")
             /\ pc' = "done"
             /\ UNCHANGED <<events, copyPending, key_index, opened, elapsed,
                            new_change_count>>
    /\ UNCHANGED <<quiet_status, callVars, ax, pasteboardVars, savedVars, scripts,
                   pasteboard_wait_timeout, copied_text, pb_ops, selection>>

\* quiet_cmd_c: osascript mutes the alert volume, types Cmd+C and restores the
\* volume. A run that exits non-zero may or may not have typed the keystroke.
QuietCmdC ==
    /\ pc = "quiet_cmd_c"
    /\ \E out \in ScriptOutcomes, typed \in BOOLEAN :
        /\ (out = "ok" => typed)
        /\ (out = "spawn_failed" => ~typed)
        /\ quiet_status' = out
        /\ scripts' = IF out = "spawn_failed" THEN scripts ELSE scripts + 1
        /\ copyPending' = (copyPending \/ typed)
        /\ IF out = "ok"
           THEN /\ result' = result
                /\ StartWait
           ELSE /\ result' = Err(IF out = "nonzero" THEN "osascript stderr"
                                 ELSE "osascript could not be run")
                /\ pc' = "done"
                /\ UNCHANGED <<opened, elapsed, new_change_count>>
    /\ UNCHANGED <<callVars, ax, pasteboardVars, savedVars, key_index, events,
                   pasteboard_wait_timeout, copied_text, pb_ops, selection>>

\* One iteration of the polling loop: the deadline check, the sleep and the
\* read of the change count.
Poll ==
    /\ pc = "poll"
    /\ LoopContinues(new_change_count, saved_change_count)
    /\ ~PollExpired(elapsed, pasteboard_wait_timeout)
    /\ elapsed' = elapsed + PollInterval
    /\ new_change_count' = changeCount
    /\ UNCHANGED <<pc, quiet_status, callVars, ax, pasteboardVars, opened, savedVars, key_index,
                   events, scripts, copyPending, pasteboard_wait_timeout,
                   copied_text, pb_ops, selection, result>>

\* The loop's exit and what follows it: the timeout return, or the read of the
\* copied string.
ReadCopied ==
    /\ pc = "poll"
    /\ \/ ~LoopContinues(new_change_count, saved_change_count)
       \/ PollExpired(elapsed, pasteboard_wait_timeout)
    /\ IF new_change_count = saved_change_count
       THEN /\ result' = TimeoutResult(app_name)
            /\ pc' = "done"
            /\ copied_text' = copied_text
       ELSE /\ copied_text' = StringForType(clipboard)
            /\ pc' = "restore"
            /\ result' = result
    /\ UNCHANGED <<quiet_status, callVars, ax, pasteboardVars, opened, savedVars, key_index,
                   events, scripts, copyPending, waitVars, pb_ops, selection>>

\* The restoration and the return of the copied text.
Restore ==
    /\ pc = "restore"
    /\ pc' = "done"
    /\ IF saved_contents.some
       THEN LET prev_contents == saved_contents.val
                max == Len(prev_contents)
                objs == RestoredObjects(prev_contents)
            IN  IF RewritesItems(max)
                THEN \E res \in BOOLEAN :
                        /\ clipboard' = IF res THEN objs ELSE << >>
                        /\ changeCount' = changeCount + (IF res THEN 2 ELSE 1)
                        /\ pb_ops' = pb_ops \o <<"clearContents",
                                         IF res THEN "writeObjects" ELSE "writeObjects failed">>
                        /\ result' = IF res THEN CopiedResult(app_name, copied_text)
                                     ELSE WriteFailedResult(app_name, copied_text)
                ELSE /\ clipboard' = << >>
                     /\ changeCount' = changeCount + 1
                     /\ pb_ops' = Append(pb_ops, "clearContents")
                     /\ result' = CopiedResult(app_name, copied_text)
       ELSE /\ UNCHANGED <<clipboard, changeCount, pb_ops>>
            /\ result' = CopiedResult(app_name, copied_text)
    /\ UNCHANGED <<quiet_status, callVars, ax, opened, savedVars, key_index, events, scripts,
                   copyPending, waitVars, copied_text, selection>>

\* The foreground application handles the Cmd+C it received: it replaces the
\* pasteboard's contents with its selection.
AppCopy ==
    /\ copyPending
    /\ copyPending' = FALSE
    /\ \E item \in CopiedItems : clipboard' = <<item>>
    /\ changeCount' = changeCount + 1
    /\ UNCHANGED <<pc, quiet_status, callVars, ax, opened, savedVars, key_index, events, scripts,
                   waitVars, copied_text, pb_ops, selection, result>>

\* A caller invokes get_selected_files(window_name) while Finder's selection is
\* selectedItems.
CallGetSelectedFiles(window_name, selectedItems, out) ==
    /\ pc = "idle"
    /\ pc' = "done"
    /\ entry' = "get_selected_files"
    /\ app_name' = window_name
    /\ pre' = clipboard
    /\ pre_change_count' = changeCount
    /\ selection' = selectedItems
    /\ file_script' = ScriptBody(NoActiveApp(window_name))
    /\ file_output' = out
    /\ scripts' = IF out.status = "spawn_failed" THEN scripts ELSE scripts + 1
    /\ result' = get_selected_files(window_name, selectedItems, out)
    /\ UNCHANGED <<quiet_status, use_apple_script, ax, pasteboardVars, opened, savedVars, key_index,
                   events, copyPending, waitVars, copied_text, pb_ops>>

Next ==
    \/ \E w \in AppNames, sel \in Selections, out \in FileScriptOutcomes :
          CallGetSelectedFiles(w, sel, out)
    \/ \E app \in AppNames, as \in BOOLEAN : Call_selected_text(app, as)
    \/ \E app \in AppNames, as \in BOOLEAN, t \in TimeoutValues : CallTransaction(app, as, t)
    \/ GetSelectedTextByAx
    \/ SavePasteboard
    \/ SaveContents
    \/ Simulate
    \/ QuietCmdC
    \/ Poll
    \/ ReadCopied
    \/ Restore
    \/ AppCopy

Spec == Init /\ [][Next]_vars

\* The calling thread runs: every step of a call that is enabled is taken.
\* Nothing obliges a caller to call, nor the foreground application to copy.
CallStep ==
    GetSelectedTextByAx \/ SavePasteboard \/ SaveContents \/ Simulate \/ QuietCmdC \/ Poll
        \/ ReadCopied \/ Restore

LiveSpec == Spec /\ WF_vars(CallStep)

\* The call has returned and its caller is about to call again, as the test
\* does three times over: the pasteboard, and a Cmd+C the application has not
\* handled yet, are what the next call finds.
Return ==
    /\ pc = "done"
    /\ changeCount <= MaxRepeatChangeCount
    /\ pc' = "idle"
    /\ entry' = "none"
    /\ app_name' = "none"
    /\ use_apple_script' = FALSE
    /\ ax' = NoResult
    /\ pre' = << >>
    /\ pre_change_count' = 0
    /\ opened' = FALSE
    /\ saved_change_count' = 0
    /\ saved_contents' = None
    /\ key_index' = 0
    /\ events' = << >>
    /\ scripts' = 0
    /\ quiet_status' = "none"
    /\ pasteboard_wait_timeout' = 0
    /\ elapsed' = 0
    /\ new_change_count' = 0
    /\ copied_text' = None
    /\ pb_ops' = << >>
    /\ selection' = << >>
    /\ file_script' = "none"
    /\ file_output' = [status |-> "none"]
    /\ result' = NoResult
    /\ UNCHANGED <<clipboard, changeCount, copyPending>>

NextRepeat == Next \/ Return

\* Calls made one after the other.
SpecRepeat == Init /\ [][NextRepeat]_vars

\* --------------------------------------------------------------- claims

\* ctrl_c_and_save_pasteboard returned Ok and get_selected_text_from_pasteboard
\* has returned.
TransactionReturned == pc = "done" /\ opened

\* get_selected_text_from_pasteboard saw the change count move.
ChangeDetected == new_change_count # saved_change_count

\* C1: for a pasteboard holding 0 or 1 items before the call, when the
\* transaction (ctrl_c_and_save_pasteboard, then
\* get_selected_text_from_pasteboard) returns, the pasteboard's contents equal
\* the contents it had before the transaction. Stated for the case the claim
\* names: the copy changed the pasteboard, the change was detected and the
\* items had been saved.
C1_RoundTrip ==
    [][(pc # "done" /\ pc' = "done" /\ opened' /\ ChangeDetected'
            /\ saved_contents'.some /\ Len(pre) <= 1)
        => clipboard' = pre]_vars

\* C2: every call of _selected_text for which ctrl_c_and_save_pasteboard returned
\* Ok has, when it returns, either cleared the pasteboard to restore it or
\* returned an error. Stated for the calls that detected a change (the timeout
\* path leaves the pasteboard as it found it).
C2_RestoredOrError ==
    (TransactionReturned /\ entry = "_selected_text" /\ ChangeDetected)
        => (result.kind = "err" \/ \E i \in 1..Len(pb_ops) : pb_ops[i] = "clearContents")

\* C3: in text mode, an accessibility result that is an error or the empty
\* string is followed by the pasteboard snapshot and the copy; only a non-empty
\* accessibility result is returned directly.
C3_EmptyOrFailedAxCopies ==
    [][(pc = "ax" /\ (ax'.kind = "err" \/ ax' = Ok(EmptyString))) => pc' = "save"]_vars

\* C4: when the change count never differs from the snapshot within the
\* deadline, get_selected_text_from_pasteboard returns Ok with
\* is_file_paths = false and text = [""], whatever the saved state and timeout.
C4_TimeoutIsSuccess ==
    (TransactionReturned /\ ~ChangeDetected)
        => result = [kind |-> "ok",
                     val |-> [is_file_paths |-> FALSE, app_name |-> app_name,
                              text |-> << << >> >>]]

C4_Witness ==
    /\ TransactionReturned
    /\ ~ChangeDetected
    /\ elapsed > pasteboard_wait_timeout
    /\ pasteboard_wait_timeout > 0
    /\ saved_contents.some
    /\ Len(pre) > 1
    /\ result.kind = "ok"

\* C5: for a pasteboard holding N > 1 items before the transaction and a
\* detected change, the pasteboard after the restoration holds the first N - 1
\* saved items in their order, and nothing of what was copied.
C5_DropsLastItem ==
    (TransactionReturned /\ ChangeDetected /\ Len(pre) > 1
        /\ saved_contents.some /\ result.kind = "ok")
        => /\ Len(clipboard) = Len(pre) - 1
           /\ \A i \in 1..Len(clipboard) : clipboard[i] = pre[i]
           /\ \A i \in 1..Len(clipboard) : clipboard[i] \notin CopiedItems

C5_Witness ==
    /\ TransactionReturned
    /\ ChangeDetected
    /\ Len(pre) = 3
    /\ pre[1] # pre[2]
    /\ saved_contents.some
    /\ result.kind = "ok"
    /\ Len(clipboard) = 2

\* C6: the polling loop terminates whatever the change count does; with time
\* in 10 ms ticks the wait never exceeds pasteboard_wait_timeout plus one poll
\* interval; and no poll follows the one that read a different change count.
C6_PollTerminatesBounded ==
    /\ [](elapsed <= pasteboard_wait_timeout + 10)
    /\ [][(pc = "poll" /\ ChangeDetected) => elapsed' = elapsed]_vars
    /\ (pc = "poll" ~> pc # "poll")

C6_Witness ==
    /\ pc = "poll"
    /\ elapsed = pasteboard_wait_timeout + 10
    /\ ~ChangeDetected
    /\ copyPending

\* C7: a call in which the accessibility reader returns a non-empty string
\* returns that string with is_file_paths = false, posts no key event, runs no
\* script, and leaves the pasteboard's change count and items as they were.
C7_AxLeavesPasteboard ==
    (pc = "done" /\ entry = "_selected_text" /\ ax.kind = "ok" /\ ax.val # << >>)
        => /\ result = [kind |-> "ok",
                        val |-> [is_file_paths |-> FALSE, app_name |-> app_name,
                                 text |-> <<ax.val>>]]
           /\ events = << >>
           /\ scripts = 0
           /\ pb_ops = << >>
           /\ changeCount = pre_change_count
           /\ clipboard = pre

C7_Witness ==
    /\ pc = "done"
    /\ entry = "_selected_text"
    /\ ax = Ok(<<"x">>)
    /\ result.kind = "ok"
    /\ Len(pre) > 0

\* C9: when the script succeeds, get_selected_files returns is_file_paths = true
\* and the window name; for n >= 1 selected items the text has n elements, and
\* for no selected item it is one empty string.
C9_OneElementPerPath ==
    (pc = "done" /\ entry = "get_selected_files" /\ result.kind = "ok")
        => /\ result.val.is_file_paths
           /\ result.val.app_name = app_name
           /\ (Len(selection) >= 1 => Len(result.val.text) = Len(selection))
           /\ (Len(selection) = 0 => result.val.text = << << >> >>)

\* C11: a run of the file-path script that exits non-zero, or whose standard
\* output is not UTF-8, makes get_selected_files return an error that carries
\* what was captured (the standard error, character by character; the
\* undecodable output) and never a SelectedText; the desktop script is the one
\* used exactly when the window name is "Empty Window".
C11_ExtractorFailureIsError ==
    (pc = "done" /\ entry = "get_selected_files")
        => /\ (file_script = "EMPTY_WINDOW_PATH_COPY_APPLE_SCRIPT") <=> (app_name = "Empty Window")
           /\ file_script \in {"EMPTY_WINDOW_PATH_COPY_APPLE_SCRIPT", "FILE_PATH_COPY_APPLE_SCRIPT"}
           /\ file_output.status = "nonzero"
                => /\ result.kind = "err"
                   /\ Len(result.cause) = Len(file_output.stderr)
                   /\ \A i \in 1..Len(result.cause) :
                        result.cause[i].code_point = file_output.stderr[i]
           /\ file_output.status = "ok_not_utf8"
                => /\ result.kind = "err"
                   /\ result.cause.error = "FromUtf8Error"

C11_Witness ==
    /\ pc = "done"
    /\ entry = "get_selected_files"
    /\ app_name = "Empty Window"
    /\ file_output.status = "nonzero"
    /\ Len(file_output.stderr) = 2
    /\ Len(selection) > 0
    /\ result.kind = "err"

\* C12: ctrl_c_and_save_pasteboard reads the change count and the items as one
\* snapshot of the same pasteboard state (the count has not moved between the
\* two reads), before any copy is triggered; and sim_ctrl_c posts cmd down,
\* c down, c up, cmd up in this order, each at most once.
C12_SnapshotThenOrderedKeys ==
    /\ [][(pc = "save_items" /\ pc' # "save_items" /\ saved_contents'.some)
            => changeCount = saved_change_count]_vars
    /\ [](pc \in {"save", "save_items"} => (events = << >> /\ scripts = 0))
    /\ [](/\ Len(events) <= 4
          /\ \A i \in 1..Len(events) :
                events[i] = << <<"cmd", TRUE>>, <<"c", TRUE>>, <<"c", FALSE>>,
                               <<"cmd", FALSE>> >>[i])

\* C13: when the change was detected, more than one item had been saved and the
\* write of the saved items fails, get_selected_text_from_pasteboard returns an
\* error and no SelectedText.
C13_FailedWriteIsError ==
    (TransactionReturned /\ ChangeDetected /\ saved_contents.some
        /\ \E i \in 1..Len(pb_ops) : pb_ops[i] = "writeObjects failed")
        => result.kind = "err"

C13_Witness ==
    /\ TransactionReturned
    /\ ChangeDetected
    /\ saved_contents.some
    /\ Len(saved_contents.val) > 1
    /\ pb_ops = <<"clearContents", "writeObjects failed">>
    /\ copied_text = [some |-> TRUE, val |-> <<"s">>]
    /\ result.kind = "err"

\* The copy of a call on the pasteboard path could not be triggered: one of
\* the four simulate calls posted nothing, or osascript exited non-zero.
TriggerFailed ==
    /\ pc = "done"
    /\ entry \in {"_selected_text", "transaction"}
    /\ (entry = "_selected_text" => ax.kind = "err")
    /\ IF use_apple_script THEN quiet_status = "nonzero" ELSE Len(events) < 4

\* C14: a simulate that fails, or a non-zero exit of the scripted keystroke, is
\* fatal: the call returns an error, waits for nothing, and neither clears nor
\* writes the pasteboard.
C14_TriggerFailureIsFatal ==
    TriggerFailed
        => /\ result.kind = "err"
           /\ ~opened
           /\ elapsed = 0
           /\ pb_ops = << >>

C14_Witness ==
    /\ TriggerFailed
    /\ entry = "_selected_text"
    /\ ~use_apple_script
    /\ Len(events) = 2
    /\ result.kind = "err"
    /\ Len(pre) > 0

\* C15: every SelectedText _selected_text returns has is_file_paths = false,
\* the app_name it was given and a text of exactly one element, which is the
\* empty string when the change was detected and the pasteboard held no string.
C15_TextModeShape ==
    (pc = "done" /\ entry = "_selected_text" /\ result.kind = "ok")
        => /\ result.val.is_file_paths = FALSE
           /\ result.val.app_name = app_name
           /\ Len(result.val.text) = 1
           /\ (opened /\ ChangeDetected /\ ~copied_text.some) => result.val.text = << << >> >>

C15_Witness ==
    /\ pc = "done"
    /\ entry = "_selected_text"
    /\ result.kind = "ok"
    /\ opened
    /\ ChangeDetected
    /\ ~copied_text.some
    /\ app_name = "Empty Window"

\* sim_ctrl_c was called and has returned.
SimCtrlCReturned ==
    /\ entry \in {"_selected_text", "transaction"}
    /\ ~use_apple_script
    /\ pc \in {"poll", "restore", "done"}
    /\ (entry = "_selected_text" => ax.kind = "err")

\* C16: when sim_ctrl_c has returned, on any path, every key-down it posted is
\* followed by a key-up of the same key.
C16_KeysReleased ==
    SimCtrlCReturned
        => \A i \in 1..Len(events) :
              events[i][2] => \E j \in (i + 1)..Len(events) : events[j] = <<events[i][1], FALSE>>

\* C17: once _selected_text has returned, the copy it triggered no longer
\* changes the pasteboard. Stated for the calls that return Ok after the wait.
C17_NoCopyAfterReturn ==
    [][(pc = "done" /\ entry = "_selected_text" /\ opened /\ result.kind = "ok")
        => clipboard' = clipboard]_vars

\* C18: on a detected change the string is read from the pasteboard as the copy
\* left it, before any clearContents of the call, and the text returned after
\* the restoration is that string (the empty string when there was none).
C18_TextReadBeforeRestore ==
    /\ [][(pc = "poll" /\ pc' = "restore")
            => /\ pb_ops = << >>
               /\ clipboard' = clipboard
               /\ (clipboard = <<"s">> => copied_text' = [some |-> TRUE, val |-> <<"s">>])
               /\ (clipboard = <<"img">> => copied_text' = [some |-> FALSE])]_vars
    /\ [][(pc = "restore" /\ pc' = "done" /\ result'.kind = "ok")
            => result'.val.text = << IF copied_text.some THEN copied_text.val ELSE << >> >>]_vars

C18_Witness ==
    /\ TransactionReturned
    /\ ChangeDetected
    /\ result.kind = "ok"
    /\ result.val.text = << <<"s">> >>
    /\ pb_ops = <<"clearContents", "writeObjects">>
    /\ clipboard # <<"s">>
====
